---- MODULE Spec2Model ----
(***************************************************************************)
(* A model of cmd/block/block.go: the `block` command line tool with its   *)
(* modes build, hash, header, new, sign, tx and validate, and the usage     *)
(* exit of main.  One run of one mode is a                                 *)
(* behaviour: Init fixes the mode, its flags, positional arguments and     *)
(* stdin; the actions are the steps of the mode's handler; `exit`,         *)
(* `stdout` and `snapFile` are what the run leaves behind.                 *)
(*                                                                         *)
(* The packages the tool calls (protocol, validation, bc, ed25519) are     *)
(* not part of the source at hand.  They are modelled from the written     *)
(* specification (sections 3, 4.3, 4.4, 4.5) and are marked so below.      *)
(***************************************************************************)
EXTENDS Integers, Sequences, FiniteSets, TLC

VARIABLES
    mode,        \* os.Args[1]: the handler main dispatches to
    pc,          \* position inside the handler
    exit,        \* "running", "ok", "panic" (must / panic) or "exit1" (os.Exit(1))
    stdout,      \* sequence of values written to os.Stdout
    stderr,      \* sequence of messages written to os.Stderr
    timeOK,      \* the -time flag is empty or parses as RFC 3339
    timestampMS, \* the time of the -time flag (or the clock), in milliseconds
    \* ---- validate and sign
    stdinBlock,  \* the block decoded from stdin
    stdinBlockOK,\* whether FromBytes succeeded on stdin
    prevHex,     \* the -prev flag: [kind |-> "empty" | "bad" | "hdr", hdr |-> header]
    \* ---- validate
    noSig,       \* the -nosig flag
    noPrev,      \* the -noprev flag
    vCalls,      \* the calls into package validation made by the run, in order
    \* ---- new
    quorumFlag,  \* the -quorum flag
    pubkeysHex,  \* fs.Args(): each [chars |-> length of the string, hex |-> all hex digits]
    niArgs,      \* the arguments passed to protocol.NewInitialBlock, <<>> if not called
    \* ---- sign
    signArgs,    \* fs.Args(): each [chars, hex, key], the private keys in hex
    signHash,    \* hash: the block hash computed before signing
    invoked,     \* the indices SignBlock has called the signer for, in order
    assembled,   \* the signer's result for each index invoked so far
    \* ---- build
    snapOut,     \* whether the -snapout flag names a file
    stdinSnap,   \* stdin: [ok |-> FromBytes succeeded, snap |-> the snapshot]
    txArgs,      \* fs.Args(): the transaction files, in command-line order
    txIdx,       \* the number of transaction files the loop has gone through
    bb,          \* the block builder
    bbLog,       \* the builder operations called by the run, in order
    built,       \* what Build returned: <<[ub, snapshot]>>, or <<>>
    snapFile,    \* what the run wrote to the -snapout file: <<snapshot>>, or <<>>
    chain,       \* [height, timestamp_ms] of the blocks built one from the other's snapshot
    \* ---- hash, header, tx
    insp         \* [stdin, txs, nilPred, flags, pretty, raw, args]: stdin, what it decodes to, the flags

comVars == <<mode, pc, exit, stdout, stderr, timeOK, timestampMS>>
inVars == <<stdinBlock, stdinBlockOK, prevHex>>
valVars == <<noSig, noPrev, vCalls>>
newVars == <<quorumFlag, pubkeysHex, niArgs>>
signVars == <<signArgs, signHash, invoked, assembled>>
buildVars == <<snapOut, stdinSnap, txArgs, txIdx, bb, bbLog, built, snapFile, chain>>
inspVars == <<insp>>
vars == <<comVars, inVars, valVars, newVars, signVars, buildVars, inspVars>>

(***************************************************************************)
(* Bounds of the model.                                                    *)
(***************************************************************************)
MaxKeys == 2        \* public keys in a predicate, positional key arguments
MaxHeight == 3      \* block heights 1..MaxHeight
MaxTime == 2        \* timestamps (ms) 1..MaxTime
MaxVersion == 2     \* block versions 1..MaxVersion
MaxTx == 2          \* transaction files given to build
MaxChain == 2       \* blocks built one after another

PublicKeySize == 32

\* All sequences over S of length 0..n.
SeqsUpTo(S, n) == UNION {[1..k -> S] : k \in 0..n}

(***************************************************************************)
(* Data model (specification section 3).                                   *)
(***************************************************************************)
\* An absent optional value (a nil Hash, a nil signature).
Absent == <<>>

\* Key pairs: private key k has public key PubOf(k).
PrivateKeys == 1..(MaxKeys + 1)
PubOf(prv) == <<"pub", prv>>
PublicKeys == {PubOf(k) : k \in PrivateKeys}

Predicates ==
    {[version |-> 1, quorum |-> q, pubkeys |-> [i \in 1..n |-> PubOf(i)]] :
        <<n, q>> \in {nq \in (0..MaxKeys) \X (0..MaxKeys) : nq[2] <= nq[1]}}

EmptyPredicate == [version |-> 1, quorum |-> 0, pubkeys |-> <<>>]

\* The content hash of a header: a function of every field, and different
\* for headers that differ in any field.
Hash(h) ==
    <<"hash", h.version, h.height, h.previous_block_id, h.timestamp_ms,
      h.runlimit, h.refs_count, h.transactions_root, h.contracts_root,
      h.nonces_root, h.next_predicate>>

\* ed25519.Sign(prv, msg) and ed25519.Verify(pub, msg, sig).
Sign(prv, msg) == <<PubOf(prv), msg>>
Verify(pub, msg, sig) == sig = <<pub, msg>>

(***************************************************************************)
(* Package validation (specification section 4.5).                         *)
(***************************************************************************)
\* validation.BlockOnly: ValidateStructure.
BlockOnly(h) ==
    IF h.version < 1 \/ h.version > MaxVersion THEN "BadVersion"
    ELSE IF h.runlimit < 0 THEN "BadRunlimit"
    ELSE "ok"

\* validation.Block(b, prev): ValidateAgainstPrevious.
ValidationBlock(h, prev) ==
    IF h.previous_block_id # Hash(prev) THEN "ChainMismatch"
    ELSE IF h.height # prev.height + 1 THEN "HeightMismatch"
    ELSE IF ~(h.timestamp_ms > prev.timestamp_ms) THEN "TimestampNotMonotonic"
    ELSE IF ~(h.version >= prev.version) THEN "VersionDowngrade"
    ELSE "ok"

\* The signature slots of block b that are present.
PresentSlots(b) == {i \in 1..Len(b.signatures) : b.signatures[i] # Absent}

\* The present slots that verify against the predicate's key of the same
\* index and the block's content hash.
ValidSlots(b, pred) ==
    {i \in PresentSlots(b) :
        /\ i <= Len(pred.pubkeys)
        /\ Verify(pred.pubkeys[i], Hash(b.UnsignedBlock), b.signatures[i])}

\* validation.BlockSig(b, pred): ValidateSignatures.
BlockSig(b, pred) ==
    IF PresentSlots(b) # ValidSlots(b, pred) THEN "InvalidSignature"
    ELSE IF Cardinality(ValidSlots(b, pred)) >= pred.quorum THEN "ok"
    ELSE "QuorumNotMet"

(***************************************************************************)
(* The variables of a mode that is not the one running.                    *)
(***************************************************************************)
NoNewRun == quorumFlag = 0 /\ pubkeysHex = <<>> /\ niArgs = <<>>
NoSnapshot == [height |-> 0, timestamp_ms |-> 0, nonces |-> {}]
NewBlockBuilder ==
    [state |-> "Idle", height |-> 0, timestamp_ms |-> 0, snapshot |-> NoSnapshot,
     leaves |-> <<>>, runlimit |-> 0]
NoBuildRun ==
    /\ snapOut = FALSE /\ stdinSnap = [ok |-> TRUE, snap |-> NoSnapshot]
    /\ txArgs = <<>> /\ txIdx = 0 /\ bb = NewBlockBuilder /\ bbLog = <<>>
    /\ built = <<>> /\ snapFile = <<>> /\ chain = <<>>
NoInspRun ==
    insp = [stdin |-> "garbage", txs |-> <<>>, nilPred |-> FALSE, flags |-> "ok",
            pretty |-> FALSE, raw |-> FALSE, args |-> <<>>]
NoSignRun == signArgs = <<>> /\ signHash = <<>> /\ invoked = <<>> /\ assembled = <<>>

(***************************************************************************)
(* validate (block.go 192-252).                                            *)
(***************************************************************************)
\* block.go 222: err = validation.Block(b.UnsignedBlock, &prev)
\* (variant: the two headers exchanged)
CallBlock_SwappedArguments(b, prev) == ValidationBlock(prev, b.UnsignedBlock)
CallBlock(b, prev) == ValidationBlock(b.UnsignedBlock, prev)

\* block.go 232: err = validation.BlockSig(&b, prev.NextPredicate)
\* (variant: the block's own next predicate instead of the previous header's)
CallBlockSig_OwnPredicate(b, prev) == BlockSig(b, b.UnsignedBlock.next_predicate)
CallBlockSig(b, prev) == BlockSig(b, prev.next_predicate)

Call(fn, result) == [fn |-> fn, result |-> result]
Outcome(calls, ex, err) == [calls |-> calls, exit |-> ex, stderr |-> err]
Failed(calls, result) == Outcome(calls, "exit1", <<result>>)

\* block.go 214-239: the branch taken when -prev is not empty.
\* (variant: the error of the signature check is not acted on)
ValidateWithPrev_IgnoresSigError(b, prev, nosig) ==
    LET r1 == CallBlock(b, prev)
        c1 == <<Call("Block", r1)>>
        r2 == CallBlockSig(b, prev)
        c2 == c1 \o <<Call("BlockSig", r2)>>
    IN  IF r1 # "ok" THEN Failed(c1, r1)
        ELSE IF nosig THEN Outcome(c1, "ok", <<>>)
        ELSE Outcome(c2, "ok", <<>>)

ValidateWithPrev(b, prev, nosig) ==
    LET r1 == CallBlock(b, prev)
        c1 == <<Call("Block", r1)>>
        r2 == CallBlockSig(b, prev)
        c2 == c1 \o <<Call("BlockSig", r2)>>
    IN  IF r1 # "ok" THEN Failed(c1, r1)
        ELSE IF nosig THEN Outcome(c1, "ok", <<>>)
        ELSE IF r2 # "ok" THEN Failed(c2, r2)
        ELSE Outcome(c2, "ok", <<>>)

\* block.go 241-251: the branch taken when -prev is empty.
ValidateWithoutPrev(b, noprev) ==
    LET r == BlockOnly(b.UnsignedBlock)
        c == <<Call("BlockOnly", r)>>
    IN  IF b.UnsignedBlock.height = 1 \/ noprev
        THEN IF r # "ok" THEN Failed(c, r) ELSE Outcome(c, "ok", <<>>)
        ELSE Failed(<<>>, "previous blockheader not supplied")

\* block.go 207-252: what a run of validate does, given its inputs.
ValidateResult(b, bOK, prev, nosig, noprev) ==
    IF ~bOK THEN Failed(<<>>, "bad block")
    ELSE IF prev.kind # "empty"
    THEN IF prev.kind = "bad"
         THEN Outcome(<<>>, "panic", <<>>)
         ELSE ValidateWithPrev(b, prev.hdr, nosig)
    ELSE ValidateWithoutPrev(b, noprev)

\* The handler `validate`.
Validate ==
    /\ mode = "validate" /\ pc = "start"
    /\ LET out == ValidateResult(stdinBlock, stdinBlockOK, prevHex, noSig, noPrev)
       IN  /\ vCalls' = out.calls
           /\ exit' = out.exit
           /\ stderr' = out.stderr
    /\ pc' = "done"
    /\ UNCHANGED <<mode, stdout, timeOK, timestampMS>>
    /\ UNCHANGED <<inVars, noSig, noPrev, newVars, signVars, buildVars, inspVars>>

(***************************************************************************)
(* Inputs of validate.                                                     *)
(***************************************************************************)
\* The id a header of height > 1 carries for a predecessor outside the model.
AncestorId == <<"ancestor">>

\* The root of an empty set of leaves.
EmptyRoot == <<"root">>

\* A header of a block without transactions over an empty state.
Header(v, h, prevId, ts, rl, pred) ==
    [version |-> v, height |-> h, previous_block_id |-> prevId,
     timestamp_ms |-> ts, runlimit |-> rl, refs_count |-> 0,
     transactions_root |-> EmptyRoot, contracts_root |-> EmptyRoot,
     nonces_root |-> EmptyRoot, next_predicate |-> pred]

Block(hdr, sigs) == [UnsignedBlock |-> hdr, signatures |-> sigs]

NoHeader == Header(1, 1, Absent, 1, 0, EmptyPredicate)
NoBlock == Block(NoHeader, <<>>)
NoPrevHex == [kind |-> "empty", hdr |-> NoHeader]
PrevHdr(h) == [kind |-> "hdr", hdr |-> h]

\* Predecessor headers given with -prev.
PrevHeaders(pred) ==
    {Header(v, h, IF h = 1 THEN Absent ELSE AncestorId, ts, 0, pred) :
        v \in 1..MaxVersion, h \in 1..MaxHeight, ts \in 1..MaxTime}

\* Linkage inputs: a block that names any predecessor (or none) as its
\* previous block, validated against any predecessor.
LinkInputs ==
    LET P == PrevHeaders(EmptyPredicate)
    IN  {[b |-> Block(Header(v, h, id, ts, 0, EmptyPredicate), <<>>),
          prev |-> PrevHdr(p), bOK |-> TRUE, nosig |-> ns, noprev |-> FALSE] :
            v \in 1..MaxVersion, h \in 1..MaxHeight, ts \in 1..MaxTime,
            id \in {Absent} \cup {Hash(q) : q \in P}, p \in P, ns \in BOOLEAN}

\* What a signature slot may hold: nothing, the signature of the slot's own
\* key over the block's hash, that key's signature over another message, or
\* another key's signature over the block's hash.
SlotKinds == {"absent", "valid", "wrongmsg", "wrongkey"}

Slot(kind, i, hdr) ==
    CASE kind = "absent" -> Absent
      [] kind = "valid" -> Sign(i, Hash(hdr))
      [] kind = "wrongmsg" -> Sign(i, AncestorId)
      [] kind = "wrongkey" -> Sign(i + 1, Hash(hdr))

\* Signature inputs: a correctly linked block of height 2 under every
\* predicate of the predecessor and every signature list.
SigInputs ==
    {[b |-> LET p == Header(1, 1, Absent, 1, 0, pred)
                hdr == Header(1, 2, Hash(p), 2, 0, EmptyPredicate)
            IN  Block(hdr, [i \in 1..Len(kinds) |-> Slot(kinds[i], i, hdr)]),
      prev |-> PrevHdr(Header(1, 1, Absent, 1, 0, pred)),
      bOK |-> TRUE, nosig |-> ns, noprev |-> FALSE] :
        pred \in Predicates, kinds \in SeqsUpTo(SlotKinds, MaxKeys),
        ns \in BOOLEAN}

\* The predicate and predecessors of the flag inputs.
OneOfOne == [version |-> 1, quorum |-> 1, pubkeys |-> <<PubOf(1)>>]
FlagPrev(h) == Header(1, h, Absent, 1, 0, OneOfOne)

\* Flag inputs: every combination of -prev, -nosig and -noprev on blocks of
\* every height, linked to the given predecessor or not, signed or not,
\* structurally sound or not, decodable or not.
FlagInputs ==
    {[b |-> LET hdr == Header(1, h, IF linked THEN Hash(FlagPrev(h - 1)) ELSE Absent,
                              2, rl, EmptyPredicate)
            IN  Block(hdr, IF signed THEN <<Sign(1, Hash(hdr))>> ELSE <<>>),
      prev |-> IF kind = "hdr" THEN PrevHdr(FlagPrev(h - 1))
               ELSE [kind |-> kind, hdr |-> NoHeader],
      bOK |-> ok, nosig |-> ns, noprev |-> np] :
        h \in 1..MaxHeight, linked \in BOOLEAN, signed \in BOOLEAN,
        rl \in {-1, 0}, kind \in {"empty", "bad", "hdr"},
        ok \in BOOLEAN, ns \in BOOLEAN, np \in BOOLEAN}

InitValidate ==
    /\ mode = "validate" /\ pc = "start" /\ exit = "running"
    /\ stdout = <<>> /\ stderr = <<>> /\ vCalls = <<>>
    /\ \E in \in LinkInputs \cup SigInputs \cup FlagInputs :
        /\ stdinBlock = in.b /\ stdinBlockOK = in.bOK /\ prevHex = in.prev
        /\ noSig = in.nosig /\ noPrev = in.noprev
    /\ timeOK = TRUE /\ timestampMS = 0
    /\ NoNewRun /\ NoSignRun /\ NoBuildRun /\ NoInspRun

SpecValidate == InitValidate /\ [][Validate]_vars

(***************************************************************************)
(* Properties of validate.                                                 *)
(***************************************************************************)
ValidateDone == mode = "validate" /\ pc = "done"
vHdr == stdinBlock.UnsignedBlock
vPrev == prevHex.hdr
vPred == vPrev.next_predicate
Called(fn) == \E i \in 1..Len(vCalls) : vCalls[i].fn = fn
ResultOf(fn) == vCalls[CHOOSE i \in 1..Len(vCalls) : vCalls[i].fn = fn].result

\* The signature list of the validated block, read slot by slot against the
\* keys of the predecessor's predicate.
SlotValid(i) ==
    /\ i <= Len(vPred.pubkeys)
    /\ stdinBlock.signatures[i] = Sign(i, Hash(vHdr))
SlotPresent(i) == stdinBlock.signatures[i] # Absent
NumValid == Cardinality({i \in 1..Len(stdinBlock.signatures) : SlotValid(i)})
AllPresentValid ==
    \A i \in 1..Len(stdinBlock.signatures) : SlotPresent(i) => SlotValid(i)
SomeInvalid ==
    \E i \in 1..Len(stdinBlock.signatures) : SlotPresent(i) /\ ~SlotValid(i)

\* C1: quorum boundary.  Whenever validate runs the signature check and
\* every present signature is valid, the check succeeds (and the run ends
\* ok) with exactly quorum valid signatures, in whatever positions, and
\* fails with QuorumNotMet (exit 1) with exactly quorum - 1; quorum 0 with
\* no keys and no signatures succeeds.
C1_QuorumBoundary ==
    (ValidateDone /\ Called("BlockSig") /\ AllPresentValid) =>
        /\ NumValid = vPred.quorum =>
            (ResultOf("BlockSig") = "ok" /\ exit = "ok")
        /\ NumValid = vPred.quorum - 1 =>
            (ResultOf("BlockSig") = "QuorumNotMet" /\ exit = "exit1")

\* A run that met the quorum exactly, with one of two keys signing in the
\* second position.
C1_Witness ==
    /\ ValidateDone /\ Called("BlockSig") /\ AllPresentValid
    /\ Len(vPred.pubkeys) = 2 /\ vPred.quorum = 1 /\ NumValid = 1
    /\ Len(stdinBlock.signatures) = 2 /\ ~SlotPresent(1) /\ SlotValid(2)
    /\ ResultOf("BlockSig") = "ok" /\ exit = "ok"

\* C2: a present signature that does not verify makes the signature check
\* fail with InvalidSignature and the run exit 1, whatever the other slots
\* hold; it is never counted as an abstention.
C2_InvalidSignatureIsHardFailure ==
    (ValidateDone /\ Called("BlockSig") /\ SomeInvalid) =>
        (ResultOf("BlockSig") = "InvalidSignature" /\ exit = "exit1")

\* A run that failed on an invalid signature although the valid signatures
\* alone met the quorum.
C2_Witness ==
    /\ ValidateDone /\ Called("BlockSig") /\ SomeInvalid
    /\ vPred.quorum >= 1 /\ NumValid >= vPred.quorum
    /\ ResultOf("BlockSig") = "InvalidSignature" /\ exit = "exit1"

\* The four linkage conditions between the validated block and -prev.
Linked ==
    /\ vHdr.previous_block_id = Hash(vPrev)
    /\ vHdr.height = vPrev.height + 1
    /\ vHdr.timestamp_ms > vPrev.timestamp_ms
    /\ vHdr.version >= vPrev.version

\* C3: when -prev is given, the linkage check succeeds exactly when the
\* block names the hash of the previous header, is one higher, is strictly
\* later and has no lower version; a failure ends the run with exit 1.
C3_LinkageExactly ==
    (ValidateDone /\ stdinBlockOK /\ prevHex.kind = "hdr") =>
        /\ Called("Block")
        /\ (ResultOf("Block") = "ok") <=> Linked
        /\ ~Linked => exit = "exit1"

\* A block that names a header of height 2 as its previous block and is
\* accepted against it; against that header with another height it is not
\* (the equivalence above covers every such pair).
C3_Witness ==
    /\ ValidateDone /\ prevHex.kind = "hdr" /\ Called("Block")
    /\ vPrev.height = 2 /\ Linked
    /\ ResultOf("Block") = "ok" /\ exit = "ok"

\* C4: a block of height 1 is checked by the structural check alone,
\* whatever the flags: neither the linkage check nor the signature check is
\* run on it.
C4_GenesisOnlyStructure ==
    (ValidateDone /\ stdinBlockOK /\ vHdr.height = 1 /\ exit # "panic") =>
        /\ vCalls # <<>>
        /\ \A i \in 1..Len(vCalls) : vCalls[i].fn = "BlockOnly"

\* C10: with -noprev set, no check of the block against a predecessor header
\* is made, whatever the other flags.
C10_NoPrevSkipsPredecessor ==
    (ValidateDone /\ noPrev) => (~Called("Block") /\ ~Called("BlockSig"))

NoStdinBlock ==
    stdinBlock = NoBlock /\ stdinBlockOK = TRUE /\ prevHex = NoPrevHex
NoValidateRun == noSig = FALSE /\ noPrev = FALSE /\ vCalls = <<>>

(***************************************************************************)
(* new (block.go 105-152).                                                 *)
(***************************************************************************)
\* hex.DecodeString: an error for an odd number of characters or a character
\* that is no hex digit, otherwise one byte for every two characters.
DecodeString(arg) ==
    IF ~arg.hex \/ arg.chars % 2 = 1
    THEN [ok |-> FALSE, len |-> 0]
    ELSE [ok |-> TRUE, len |-> arg.chars \div 2]

\* block.go 118-125: the decoded keys, or the failure of the first argument
\* that does not decode to a key of 32 bytes.
RECURSIVE DecodePubkeys(_)
DecodePubkeys(args) ==
    IF args = <<>> THEN [ok |-> TRUE, pubkeys |-> <<>>]
    ELSE LET rest == DecodePubkeys(SubSeq(args, 1, Len(args) - 1))
             b == DecodeString(args[Len(args)])
         IN  IF ~rest.ok THEN rest
             ELSE IF ~b.ok \/ b.len # PublicKeySize
             THEN [ok |-> FALSE, pubkeys |-> <<>>]
             ELSE [ok |-> TRUE, pubkeys |-> Append(rest.pubkeys, b.len)]

\* block.go 127-135: the quorum passed on, or its rejection.
\* (variant: a quorum of 0 is passed on as it is)
NewQuorum_KeepZero(quorum, n) ==
    IF quorum < 0 \/ quorum > n THEN [ok |-> FALSE, quorum |-> quorum]
    ELSE [ok |-> TRUE, quorum |-> quorum]

NewQuorum(quorum, n) ==
    IF quorum < 0 \/ quorum > n THEN [ok |-> FALSE, quorum |-> quorum]
    ELSE IF quorum = 0 THEN [ok |-> TRUE, quorum |-> n]
    ELSE [ok |-> TRUE, quorum |-> quorum]

\* protocol.NewInitialBlock(pubkeys, quorum, ts): the genesis block.
NewInitialBlock(pubkeys, quorum, ts) ==
    Block(Header(1, 1, Absent, ts, 0,
                 [version |-> 1, quorum |-> quorum, pubkeys |-> pubkeys]), <<>>)

\* The handler `newBlock`.
NewBlock ==
    /\ mode = "new" /\ pc = "start"
    /\ pc' = "done"
    /\ LET keys == DecodePubkeys(pubkeysHex)
           q == NewQuorum(quorumFlag, Len(keys.pubkeys))
       IN  IF ~keys.ok \/ ~q.ok \/ ~timeOK
           THEN /\ exit' = "panic"
                /\ UNCHANGED <<niArgs, stdout>>
           ELSE /\ niArgs' = <<[pubkeys |-> keys.pubkeys, quorum |-> q.quorum]>>
                /\ stdout' = Append(stdout,
                       NewInitialBlock(keys.pubkeys, q.quorum, timestampMS))
                /\ exit' = "ok"
    /\ UNCHANGED <<mode, stderr, timeOK, timestampMS, quorumFlag, pubkeysHex>>
    /\ UNCHANGED <<inVars, valVars, signVars, buildVars, inspVars>>

\* Positional arguments of new: strings of 0, 62, 63, 64 or 66 characters,
\* all of them hex digits or not.
HexArgs == {[chars |-> c, hex |-> x] : c \in {0, 62, 63, 64, 66}, x \in BOOLEAN}

InitNew ==
    /\ mode = "new" /\ pc = "start" /\ exit = "running"
    /\ stdout = <<>> /\ stderr = <<>>
    /\ timeOK \in BOOLEAN /\ timestampMS \in 1..MaxTime
    /\ quorumFlag \in -1..(MaxKeys + 1)
    /\ pubkeysHex \in SeqsUpTo(HexArgs, MaxKeys)
    /\ niArgs = <<>>
    /\ NoStdinBlock /\ NoValidateRun /\ NoSignRun /\ NoBuildRun /\ NoInspRun

SpecNew == InitNew /\ [][NewBlock]_vars

(***************************************************************************)
(* Properties of new.                                                      *)
(***************************************************************************)
NewDone == mode = "new" /\ pc = "done"
GoodKey(arg) == arg.hex /\ arg.chars = 2 * PublicKeySize
NumArgs == Len(pubkeysHex)

\* C9: a run of new either is rejected, and then the quorum is below 0 or
\* above the number of keys, or a key is not 32 bytes of hex (or the time
\* does not parse), or calls NewInitialBlock with the given keys and a quorum
\* q with 0 <= q <= n that is 0 only when n = 0: a quorum of 0 is replaced by
\* n, any other is passed as given.
C9_PredicateInvariant ==
    NewDone =>
        \/ /\ exit = "panic" /\ niArgs = <<>> /\ stdout = <<>>
           /\ \/ quorumFlag < 0 \/ quorumFlag > NumArgs \/ ~timeOK
              \/ \E i \in 1..NumArgs : ~GoodKey(pubkeysHex[i])
        \/ /\ exit = "ok" /\ Len(niArgs) = 1
           /\ \A i \in 1..NumArgs : GoodKey(pubkeysHex[i])
           /\ LET n == Len(niArgs[1].pubkeys)
                  q == niArgs[1].quorum
              IN  /\ n = NumArgs
                  /\ 0 <= q /\ q <= n
                  /\ q = 0 => n = 0
                  /\ n >= 1 => q >= 1
                  /\ q = (IF quorumFlag = 0 THEN n ELSE quorumFlag)

\* A run given two keys and no quorum, which passes a quorum of 2.
C9_Witness ==
    /\ NewDone /\ exit = "ok" /\ quorumFlag = 0 /\ NumArgs = 2
    /\ Len(niArgs) = 1 /\ niArgs[1].quorum = 2

(***************************************************************************)
(* sign (block.go 154-190).                                                *)
(***************************************************************************)
\* A private key is 64 bytes, 128 hex digits.
PrivateKeyHexLen == 4 * PublicKeySize

EmptyArg == [chars |-> 0, hex |-> TRUE, key |-> 0]
KeyArg(k) == [chars |-> PrivateKeyHexLen, hex |-> TRUE, key |-> k]
BadHexArg == [chars |-> PrivateKeyHexLen, hex |-> FALSE, key |-> 0]

\* flag.FlagSet.Arg(i): the i-th positional argument, counted from 0, or the
\* empty string if there is none.
Arg(args, i) == IF i < 0 \/ i >= Len(args) THEN EmptyArg ELSE args[i + 1]

\* block.go 176-183: the signer callback.  ok is FALSE when must panics.
\* (variant: the argument after the index's own)
SignerFn_NextArgument(args, hash, idx) ==
    LET arg == Arg(args, idx + 1)
    IN  IF arg.chars # 0
        THEN IF ~DecodeString(arg).ok
             THEN [ok |-> FALSE, sig |-> Absent]
             ELSE [ok |-> TRUE, sig |-> Sign(arg.key, hash)]
        ELSE [ok |-> TRUE, sig |-> Absent]

SignerFn(args, hash, idx) ==
    LET arg == Arg(args, idx)
    IN  IF arg.chars # 0
        THEN IF ~DecodeString(arg).ok
             THEN [ok |-> FALSE, sig |-> Absent]
             ELSE [ok |-> TRUE, sig |-> Sign(arg.key, hash)]
        ELSE [ok |-> TRUE, sig |-> Absent]

\* bc.SignBlock (specification section 4.4): one slot for every key of the
\* previous block's next predicate, all absent before the signer is called;
\* the signer's result for index idx (counted from 0) goes to the slot of
\* that index; the signed block is the unsigned block with the slots.
SignBlockSlots(prev) == [i \in 1..Len(prev.next_predicate.pubkeys) |-> Absent]
SignBlockPut(slots, idx, sig) == [slots EXCEPT ![idx + 1] = sig]
SignBlockResult(ub, slots) == Block(ub, slots)

\* The number of signers: the keys of the previous block's next predicate.
NumSigners == Len(prevHex.hdr.next_predicate.pubkeys)

\* block.go 157-174: flags, -prev, stdin, and the hash of the block.
SignStart ==
    /\ mode = "sign" /\ pc = "start"
    /\ IF prevHex.kind = "bad" \/ ~stdinBlockOK
       THEN /\ exit' = "panic" /\ pc' = "done"
            /\ UNCHANGED <<signHash, assembled>>
       ELSE /\ signHash' = Hash(stdinBlock.UnsignedBlock)
            /\ assembled' = SignBlockSlots(prevHex.hdr)
            /\ pc' = "signing"
            /\ UNCHANGED exit
    /\ UNCHANGED <<mode, stdout, stderr, timeOK, timestampMS>>
    /\ UNCHANGED <<inVars, valVars, newVars, buildVars, signArgs, invoked, inspVars>>

\* bc.SignBlock calling the signer for one more index, in any order
\* (specification section 4.4); the result goes to the slot of that index.
SignInvoke ==
    /\ mode = "sign" /\ pc = "signing"
    /\ \E idx \in 0..(NumSigners - 1) :
        /\ \A j \in 1..Len(invoked) : invoked[j] # idx
        /\ LET r == SignerFn(signArgs, signHash, idx)
           IN  IF ~r.ok
               THEN /\ exit' = "panic" /\ pc' = "done"
                    /\ UNCHANGED <<invoked, assembled>>
               ELSE /\ assembled' = SignBlockPut(assembled, idx, r.sig)
                    /\ invoked' = Append(invoked, idx)
                    /\ UNCHANGED <<exit, pc>>
    /\ UNCHANGED <<mode, stdout, stderr, timeOK, timestampMS>>
    /\ UNCHANGED <<inVars, valVars, newVars, buildVars, signArgs, signHash, inspVars>>

\* block.go 184-189: the signed block is written once every index is done.
SignEmit ==
    /\ mode = "sign" /\ pc = "signing"
    /\ Len(invoked) = NumSigners
    /\ stdout' = Append(stdout, SignBlockResult(stdinBlock.UnsignedBlock, assembled))
    /\ exit' = "ok" /\ pc' = "done"
    /\ UNCHANGED <<mode, stderr, timeOK, timestampMS>>
    /\ UNCHANGED <<inVars, valVars, newVars, signVars, buildVars, inspVars>>

\* Positional arguments of sign: empty, a private key, or no hex string.
SignArgKinds == {EmptyArg, BadHexArg} \cup {KeyArg(k) : k \in 1..MaxKeys}

\* The blocks given to sign: unsigned, or carrying an earlier signature.
SignBlocks ==
    LET hdr == Header(1, 2, AncestorId, 2, 0, EmptyPredicate)
    IN  {Block(hdr, <<>>), Block(hdr, <<Sign(1, AncestorId)>>)}

InitSign ==
    /\ mode = "sign" /\ pc = "start" /\ exit = "running"
    /\ stdout = <<>> /\ stderr = <<>>
    /\ timeOK = TRUE /\ timestampMS = 0
    /\ stdinBlock \in SignBlocks /\ stdinBlockOK \in BOOLEAN
    /\ prevHex \in {[kind |-> "bad", hdr |-> NoHeader]} \cup
           {PrevHdr(Header(1, 1, Absent, 1, 0, p)) :
               p \in {q \in Predicates : q.quorum = Len(q.pubkeys)}}
    /\ signArgs \in SeqsUpTo(SignArgKinds, MaxKeys + 1)
    /\ signHash = <<>> /\ invoked = <<>> /\ assembled = <<>>
    /\ NoValidateRun /\ NoNewRun /\ NoBuildRun /\ NoInspRun

NextSign == SignStart \/ SignInvoke \/ SignEmit
SpecSign == InitSign /\ [][NextSign]_vars

(***************************************************************************)
(* Properties of sign.                                                     *)
(***************************************************************************)
\* Whether the i-th positional argument (counted from 1) exists and is not
\* empty.
HasKeyArg(i) == i <= Len(signArgs) /\ signArgs[i].chars # 0

\* C8: the signed block written by sign has one slot per key of the previous
\* block's next predicate; slot i is present exactly when the i-th
\* positional argument exists and is not empty (so every index beyond the
\* arguments is absent), and then holds that key's signature over the hash
\* of the unsigned block read from stdin; at every moment of the assembly
\* each slot holds exactly what the signer returned for its index, whatever
\* the order the indices were invoked in.
C8_SignaturesByIndex ==
    /\ (mode = "sign" /\ pc = "signing") =>
          \A i \in 1..NumSigners :
              assembled[i] =
                  (IF \E j \in 1..Len(invoked) : invoked[j] = i - 1
                   THEN SignerFn(signArgs, signHash, i - 1).sig ELSE Absent)
    /\ (mode = "sign" /\ pc = "done" /\ exit = "ok") =>
          /\ Len(stdout) = 1
          /\ stdout[1].UnsignedBlock = stdinBlock.UnsignedBlock
          /\ Len(stdout[1].signatures) = NumSigners
          /\ \A i \in 1..NumSigners :
                /\ stdout[1].signatures[i] # Absent <=> HasKeyArg(i)
                /\ HasKeyArg(i) =>
                      stdout[1].signatures[i] =
                          Sign(signArgs[i].key, Hash(stdinBlock.UnsignedBlock))

\* A block signed for two signers, invoked second index first, where only
\* the second signer's key was supplied.
C8_Witness ==
    /\ mode = "sign" /\ pc = "done" /\ exit = "ok"
    /\ NumSigners = 2 /\ invoked = <<1, 0>>
    /\ ~HasKeyArg(1) /\ HasKeyArg(2)
    /\ Len(stdout) = 1
    /\ stdout[1].signatures[1] = Absent
    /\ stdout[1].signatures[2] # Absent

(***************************************************************************)
(* The block builder (specification section 4.3).                          *)
(***************************************************************************)
\* The ceiling of a block's cumulative runlimit.
BlockRunlimit == 3

Result(err, b) == [err |-> err, bb |-> b]

\* Start(snapshot, timestampMs): Idle -> Started.
Start(b, snapshot, ts) ==
    IF b.state # "Idle" THEN Result("NotIdle", b)
    ELSE IF ts <= snapshot.timestamp_ms THEN Result("StaleTimestamp", b)
    ELSE Result("ok", [state |-> "Started", height |-> snapshot.height + 1,
                       timestamp_ms |-> ts, snapshot |-> snapshot,
                       leaves |-> <<>>, runlimit |-> 0])

\* AddTx(tx): Started -> Started.  The transaction's effects are the nonce
\* it introduces and its cost, as the virtual machine reports them.
AddTx(b, tx) ==
    IF b.state # "Started" THEN Result("NotStarted", b)
    ELSE IF b.runlimit + tx.cost > BlockRunlimit THEN Result("RuntimeExceeded", b)
    ELSE IF tx.nonce \in b.snapshot.nonces THEN Result("DuplicateNonce", b)
    ELSE IF ~tx.vmok THEN Result("VMError", b)
    ELSE Result("ok",
             [b EXCEPT !.snapshot.nonces = @ \cup {tx.nonce},
                       !.leaves = Append(@, tx.nonce),
                       !.runlimit = @ + tx.cost])

\* Build(): Started -> Built.  predicateOK is FALSE when the configured
\* predicate is refused (EmptyPredicateMismatch).
BuildBlock(b, predicateOK) ==
    IF b.state # "Started" THEN Result("NotStarted", b)
    ELSE IF ~predicateOK THEN Result("EmptyPredicateMismatch", b)
    ELSE Result("ok", [b EXCEPT !.state = "Built"])

\* The header and the snapshot a successful Build returns.
BuiltHeader(b) ==
    [version |-> 1, height |-> b.height, timestamp_ms |-> b.timestamp_ms,
     runlimit |-> b.runlimit, transactions_root |-> b.leaves,
     nonces_root |-> b.snapshot.nonces]
BuiltSnapshot(b) ==
    [height |-> b.height, timestamp_ms |-> b.timestamp_ms,
     nonces |-> b.snapshot.nonces]

(***************************************************************************)
(* build (block.go 46-103).                                                *)
(***************************************************************************)
\* block.go 377-381: must panics on an error.
\* (variant: the error is dropped)
must_NeverPanics(err) == FALSE
must(err) == err # "ok"

\* block.go 74: err = bb.Start(snapshot, timestampMS)
\* (variant: a later time than the -time flag's)
StartCall_IgnoresTimeFlag(b, snapshot, ts) == Start(b, snapshot, ts + 1)
StartCall(b, snapshot, ts) == Start(b, snapshot, ts)

LogEntry(op, arg, err) == [op |-> op, arg |-> arg, err |-> err]

Panic == exit' = "panic" /\ pc' = "done"

\* block.go 54-75: the flags, the snapshot on stdin, and Start.
BuildStart ==
    /\ mode = "build" /\ pc = "start"
    /\ IF ~timeOK \/ ~stdinSnap.ok
       THEN Panic /\ UNCHANGED <<bb, bbLog>>
       ELSE LET r == StartCall(NewBlockBuilder, stdinSnap.snap, timestampMS)
            IN  /\ bb' = r.bb
                /\ bbLog' = Append(bbLog, LogEntry("Start", 0, r.err))
                /\ IF must(r.err) THEN Panic
                   ELSE pc' = "addtx" /\ UNCHANGED exit
    /\ UNCHANGED <<mode, stdout, stderr, timeOK, timestampMS>>
    /\ UNCHANGED <<snapOut, stdinSnap, txArgs, txIdx, built, snapFile, chain>>
    /\ UNCHANGED <<inVars, valVars, newVars, signVars, inspVars>>

\* block.go 77-87: one pass of the loop over the transaction files.
\* (variant: the error of AddTx is not passed to must)
BuildAddTx_Unchecked ==
    /\ mode = "build" /\ pc = "addtx" /\ txIdx < Len(txArgs)
    /\ LET file == txArgs[txIdx + 1]
       IN  IF ~file.readable
           THEN Panic /\ UNCHANGED <<bb, bbLog, txIdx>>
           ELSE LET r == AddTx(bb, file)
                IN  /\ bb' = r.bb
                    /\ bbLog' = Append(bbLog, LogEntry("AddTx", txIdx + 1, r.err))
                    /\ txIdx' = txIdx + 1 /\ UNCHANGED <<pc, exit>>
    /\ UNCHANGED <<mode, stdout, stderr, timeOK, timestampMS>>
    /\ UNCHANGED <<snapOut, stdinSnap, txArgs, built, snapFile, chain>>
    /\ UNCHANGED <<inVars, valVars, newVars, signVars, inspVars>>

BuildAddTx ==
    /\ mode = "build" /\ pc = "addtx" /\ txIdx < Len(txArgs)
    /\ LET file == txArgs[txIdx + 1]
       IN  IF ~file.readable
           THEN Panic /\ UNCHANGED <<bb, bbLog, txIdx>>
           ELSE LET r == AddTx(bb, file)
                IN  /\ bb' = r.bb
                    /\ bbLog' = Append(bbLog, LogEntry("AddTx", txIdx + 1, r.err))
                    /\ IF must(r.err) THEN Panic /\ UNCHANGED txIdx
                       ELSE txIdx' = txIdx + 1 /\ UNCHANGED <<pc, exit>>
    /\ UNCHANGED <<mode, stdout, stderr, timeOK, timestampMS>>
    /\ UNCHANGED <<snapOut, stdinSnap, txArgs, built, snapFile, chain>>
    /\ UNCHANGED <<inVars, valVars, newVars, signVars, inspVars>>

\* block.go 89-90: Build, after the loop.
BuildBuild ==
    /\ mode = "build" /\ pc = "addtx" /\ txIdx = Len(txArgs)
    /\ \E predicateOK \in BOOLEAN :
        LET r == BuildBlock(bb, predicateOK)
        IN  /\ bb' = r.bb
            /\ bbLog' = Append(bbLog, LogEntry("Build", 0, r.err))
            /\ IF must(r.err) THEN Panic /\ UNCHANGED <<built, chain>>
               ELSE /\ built' = <<[ub |-> BuiltHeader(r.bb),
                                   snapshot |-> BuiltSnapshot(r.bb)]>>
                    /\ chain' = Append(chain,
                           [height |-> r.bb.height,
                            timestamp_ms |-> r.bb.timestamp_ms])
                    /\ pc' = "output" /\ UNCHANGED exit
    /\ UNCHANGED <<mode, stdout, stderr, timeOK, timestampMS>>
    /\ UNCHANGED <<snapOut, stdinSnap, txArgs, txIdx, snapFile>>
    /\ UNCHANGED <<inVars, valVars, newVars, signVars, inspVars>>

\* What the -snapout file holds when it does not hold the new snapshot (the
\* bytes a failed newSnapshot.Bytes() returned, or a file left truncated by
\* a failed write): something that does not decode, or the empty snapshot.
BrokenFiles == {[ok |-> FALSE, snap |-> NoSnapshot], [ok |-> TRUE, snap |-> NoSnapshot]}

\* block.go 92-102: the snapshot file, if asked for, then the block on
\* stdout.  The error of newSnapshot.Bytes() (line 93) is overwritten by
\* that of ioutil.WriteFile (line 94), so when it fails (snapBytesOK FALSE)
\* the bytes it returned are written all the same.  A failing WriteFile
\* (writeOK FALSE) leaves no file, or one it created and truncated
\* (opened), and must panics.  The file is written before b.Bytes() (line
\* 99, bytesOK) encodes the block.
BuildOutput ==
    /\ mode = "build" /\ pc = "output"
    /\ \E snapBytesOK \in BOOLEAN, writeOK \in BOOLEAN, opened \in BOOLEAN,
          bytesOK \in BOOLEAN, broken \in BrokenFiles :
        /\ snapFile' =
              IF ~snapOut THEN snapFile
              ELSE IF writeOK
              THEN IF snapBytesOK
                   THEN <<[ok |-> TRUE, snap |-> built[1].snapshot]>>
                   ELSE <<broken>>
              ELSE IF opened THEN <<broken>> ELSE snapFile
        /\ IF (snapOut /\ ~writeOK) \/ ~bytesOK
           THEN Panic /\ UNCHANGED stdout
           ELSE /\ stdout' = Append(stdout, [UnsignedBlock |-> built[1].ub])
                /\ exit' = "ok" /\ pc' = "done"
    /\ UNCHANGED <<mode, stderr, timeOK, timestampMS>>
    /\ UNCHANGED <<snapOut, stdinSnap, txArgs, txIdx, bb, bbLog, built, chain>>
    /\ UNCHANGED <<inVars, valVars, newVars, signVars, inspVars>>

\* The transaction files: two transactions that apply, one the virtual
\* machine fails on, and a file that cannot be read or decoded.
TxFile(readable, vmok, nonce, cost) ==
    [readable |-> readable, vmok |-> vmok, nonce |-> nonce, cost |-> cost]
TxFiles ==
    {TxFile(TRUE, TRUE, 1, 1), TxFile(TRUE, TRUE, 2, 2),
     TxFile(TRUE, FALSE, 3, 1), TxFile(FALSE, TRUE, 0, 0)}

\* The snapshots given on stdin.
StdinSnapshots ==
    {[ok |-> FALSE, snap |-> NoSnapshot]} \cup
    {[ok |-> TRUE, snap |-> [height |-> h, timestamp_ms |-> t, nonces |-> n]] :
        h \in 0..1, t \in 0..1, n \in {{}, {1}}}

InitBuild ==
    /\ mode = "build" /\ pc = "start" /\ exit = "running"
    /\ stdout = <<>> /\ stderr = <<>>
    /\ timeOK \in BOOLEAN /\ timestampMS \in 0..MaxTime
    /\ snapOut \in BOOLEAN
    /\ stdinSnap \in StdinSnapshots
    /\ txArgs \in SeqsUpTo(TxFiles, MaxTx)
    /\ txIdx = 0 /\ bb = NewBlockBuilder /\ bbLog = <<>>
    /\ built = <<>> /\ snapFile = <<>> /\ chain = <<>>
    /\ NoStdinBlock /\ NoValidateRun /\ NoNewRun /\ NoSignRun /\ NoInspRun

\* Whether the -snapout file holds the snapshot Build returned.
HoldsBuiltSnapshot ==
    /\ snapFile # <<>> /\ built # <<>>
    /\ snapFile[1] = [ok |-> TRUE, snap |-> built[1].snapshot]

\* block.go 46-72: the next run of build, given on stdin the -snapout file
\* the run before it left.  The chain goes on when that file holds the
\* snapshot Build returned, and starts anew otherwise.
BuildNext ==
    /\ mode = "build" /\ pc = "done"
    /\ snapFile # <<>> /\ Len(chain) < MaxChain
    /\ pc' = "start" /\ exit' = "running" /\ stdout' = <<>>
    /\ timeOK' = TRUE /\ timestampMS' \in 0..MaxTime
    /\ snapOut' \in BOOLEAN
    /\ stdinSnap' = snapFile[1]
    /\ chain' = IF HoldsBuiltSnapshot THEN chain ELSE <<>>
    /\ txArgs' \in SeqsUpTo(TxFiles, MaxTx)
    /\ txIdx' = 0 /\ bb' = NewBlockBuilder /\ bbLog' = <<>>
    /\ built' = <<>> /\ snapFile' = <<>>
    /\ UNCHANGED <<mode, stderr>>
    /\ UNCHANGED <<inVars, valVars, newVars, signVars, inspVars>>

NextBuild == BuildStart \/ BuildAddTx \/ BuildBuild \/ BuildOutput \/ BuildNext
SpecBuild == InitBuild /\ [][NextBuild]_vars

(***************************************************************************)
(* main's usage exit, hash, header and tx (block.go 32-44, 254-393).       *)
(*                                                                         *)
(* insp.stdin says what stdin decodes to: "block" (a RawBlock with the     *)
(* header stdinBlock.UnsignedBlock and the transactions insp.txs),         *)
(* "header" (that header alone, which does not decode as a RawBlock),      *)
(* "empty" (a RawBlock whose Header is nil) or "garbage" (neither).        *)
(* insp.nilPred: the header's NextPredicate is nil.  insp.flags: the       *)
(* FlagSet parses the arguments ("ok"), meets a flag it does not define    *)
(* ("bad"), or meets -h or -help ("help").                                 *)
(***************************************************************************)
Modes == {"build", "hash", "header", "new", "sign", "tx", "validate"}

\* block.go 383-393: the usage text on stderr, then os.Exit(1).
UsageExit ==
    /\ stderr' = Append(stderr, "Usage:")
    /\ exit' = "exit1" /\ pc' = "done"
    /\ UNCHANGED stdout

\* block.go 32-41: no mode argument (mode = ""), or one that is no mode.
MainUsage ==
    /\ mode \notin Modes /\ pc = "start"
    /\ UsageExit
    /\ UNCHANGED <<mode, timeOK, timestampMS>>
    /\ UNCHANGED <<inVars, valVars, newVars, signVars, buildVars, inspVars>>

\* block.go 254-272.  A RawBlock is tried first, then a bare header.  The
\* hash of a nil header (stdin "empty") is the library's affair: the run
\* panics or writes some hash.
HashCmd ==
    /\ mode = "hash" /\ pc = "start"
    /\ pc' = "done"
    /\ \E nilPanics \in BOOLEAN :
        IF insp.stdin = "garbage" \/ (insp.stdin = "empty" /\ nilPanics)
        THEN exit' = "panic" /\ UNCHANGED stdout
        ELSE /\ stdout' = Append(stdout,
                    IF insp.stdin = "empty" THEN <<"hash">>
                    ELSE Hash(stdinBlock.UnsignedBlock))
             /\ exit' = "ok"
    /\ UNCHANGED <<mode, stderr, timeOK, timestampMS>>
    /\ UNCHANGED <<inVars, valVars, newVars, signVars, buildVars, inspVars>>

\* The header of the block on stdin.
InspHeader ==
    IF insp.nilPred
    THEN [stdinBlock.UnsignedBlock EXCEPT !.next_predicate = Absent]
    ELSE stdinBlock.UnsignedBlock

\* block.go 275-279, 325-333: a FlagSet made with flag.PanicOnError that
\* fails to parse writes the error (none for -h) and its usage to stderr,
\* and panics.
FlagPanic(usageLine) ==
    /\ stderr' = stderr \o
          (IF insp.flags = "bad" THEN <<"flag provided but not defined">> ELSE <<>>)
          \o <<usageLine>>
    /\ exit' = "panic" /\ pc' = "done"
    /\ UNCHANGED stdout

\* The hexadecimal text of bytes (%x, hex.EncodeToString).
Hex(b) == <<"hex", b>>

\* block.go 294-314: the lines of header -pretty.
PrettyHeader(bh, ntx) ==
    << <<"Version", bh.version>>, <<"Height", bh.height>>,
       <<"PreviousBlockId",
         IF bh.previous_block_id # Absent THEN Hex(bh.previous_block_id)
         ELSE <<"nil">> >>,
       <<"TimestampMs", bh.timestamp_ms>>, <<"Runlimit", bh.runlimit>>,
       <<"RefsCount", bh.refs_count>>,
       <<"TransactionsRoot", Hex(bh.transactions_root)>>,
       <<"ContractsRoot", Hex(bh.contracts_root)>>,
       <<"NoncesRoot", Hex(bh.nonces_root)>>,
       <<"NextPredicate.Version", bh.next_predicate.version>>,
       <<"NextPredicate.Quorum", bh.next_predicate.quorum>>,
       <<"NextPredicate.Pubkeys",
         [i \in 1..Len(bh.next_predicate.pubkeys) |-> Hex(bh.next_predicate.pubkeys[i])]>>,
       <<"Transactions", ntx>> >>

\* block.go 274-322.  The flags must parse and stdin must decode as a
\* RawBlock.  With -pretty a nil header or a nil NextPredicate is
\* dereferenced (line 294) and the run panics before it prints; without,
\* the header is written as it came, and encoding a nil header is the
\* library's affair: an error, or no bytes.
HeaderCmd ==
    /\ mode = "header" /\ pc = "start"
    /\ \E nilFails \in BOOLEAN :
        IF insp.flags # "ok"
        THEN FlagPanic("Usage of header:")
        ELSE /\ pc' = "done" /\ UNCHANGED stderr
             /\ IF insp.stdin \in {"garbage", "header"}
                THEN exit' = "panic" /\ UNCHANGED stdout
                ELSE IF insp.pretty
                THEN IF insp.stdin = "empty" \/ insp.nilPred
                     THEN exit' = "panic" /\ UNCHANGED stdout
                     ELSE /\ stdout' = stdout \o
                                PrettyHeader(InspHeader, Len(insp.txs))
                          /\ exit' = "ok"
                ELSE IF insp.stdin = "empty" /\ nilFails
                THEN exit' = "panic" /\ UNCHANGED stdout
                ELSE /\ stdout' = Append(stdout,
                            IF insp.stdin = "empty" THEN <<"header">>
                            ELSE <<"header", InspHeader>>)
                     /\ exit' = "ok"
    /\ UNCHANGED <<mode, timeOK, timestampMS>>
    /\ UNCHANGED <<inVars, valVars, newVars, signVars, buildVars, inspVars>>

\* block.go 368-370: the lines of tx -pretty.
PrettyTx(t) ==
    << <<"Version", t.version>>, <<"Runlimit", t.runlimit>>,
       <<"Program", Hex(t.program)>> >>

\* block.go 324-375.  args[1] is INDEX: [num |-> strconv.Atoi succeeds,
\* val |-> its value], counted from 0.
TxCmd ==
    /\ mode = "tx" /\ pc = "start"
    /\ IF insp.flags # "ok"
       THEN FlagPanic("Usage of tx:")
       ELSE IF Len(insp.args) < 1
       THEN UsageExit
       ELSE /\ pc' = "done" /\ UNCHANGED stderr
            /\ LET idx == insp.args[1].val
                   txs == IF insp.stdin = "block" THEN insp.txs ELSE <<>>
               IN  IF \/ ~insp.args[1].num \/ idx < 0
                      \/ insp.stdin \in {"garbage", "header"}
                      \/ idx >= Len(txs)
                   THEN exit' = "panic" /\ UNCHANGED stdout
                   ELSE /\ exit' = "ok"
                        /\ stdout' =
                              IF insp.raw THEN Append(stdout, <<"tx", txs[idx + 1]>>)
                              ELSE IF insp.pretty THEN stdout \o PrettyTx(txs[idx + 1])
                              ELSE Append(stdout, txs[idx + 1].program)
    /\ UNCHANGED <<mode, timeOK, timestampMS>>
    /\ UNCHANGED <<inVars, valVars, newVars, signVars, buildVars, inspVars>>

\* Transactions of a block on stdin.
RawTxs ==
    {[program |-> <<"program", p>>, version |-> 3, runlimit |-> 10 * p] :
        p \in 1..MaxTx}

\* INDEX arguments: no number, or a number around the transactions.
IndexArgs ==
    {[num |-> FALSE, val |-> 0]} \cup {[num |-> TRUE, val |-> i] : i \in -1..MaxTx}

InitInspect ==
    /\ mode \in {"", "bogus", "hash", "header", "tx"}
    /\ pc = "start" /\ exit = "running"
    /\ stdout = <<>> /\ stderr = <<>>
    /\ timeOK = TRUE /\ timestampMS = 0
    /\ stdinBlock \in
          {Block(Header(1, h, IF h = 1 THEN Absent ELSE AncestorId, 1, 0, p), <<>>) :
              h \in 1..2, p \in {EmptyPredicate, OneOfOne}}
    /\ stdinBlockOK = TRUE /\ prevHex = NoPrevHex
    /\ insp \in [stdin : {"block", "header", "empty", "garbage"},
                 txs : SeqsUpTo(RawTxs, MaxTx),
                 nilPred : BOOLEAN, flags : {"ok", "bad", "help"},
                 pretty : BOOLEAN, raw : BOOLEAN,
                 args : SeqsUpTo(IndexArgs, 1)]
    /\ insp.nilPred =>
          /\ mode = "header" /\ insp.stdin = "block"
          /\ stdinBlock.UnsignedBlock.next_predicate = EmptyPredicate
    /\ insp.flags # "ok" => mode \in {"header", "tx"}
    /\ NoValidateRun /\ NoNewRun /\ NoSignRun /\ NoBuildRun

NextInspect == MainUsage \/ HashCmd \/ HeaderCmd \/ TxCmd
SpecInspect == InitInspect /\ [][NextInspect]_vars

(***************************************************************************)
(* Every run of the tool.                                                  *)
(***************************************************************************)
Init == InitValidate \/ InitNew \/ InitSign \/ InitBuild \/ InitInspect
Next == Validate \/ NewBlock \/ NextSign \/ NextBuild \/ NextInspect
Spec == Init /\ [][Next]_vars

(***************************************************************************)
(* Properties of build.                                                    *)
(***************************************************************************)
AllOk(k) == \A i \in 1..k : bbLog[i].err = "ok"
SomeOpFailed == \E i \in 1..Len(bbLog) : bbLog[i].err # "ok"
LastOp == bbLog[Len(bbLog)]

\* C5: in every run of build the builder operations called so far are
\* Start, first and once, from Idle; then AddTx for the transaction files in
\* command-line order, each after all operations before it succeeded; then
\* Build, once, after an AddTx for every file succeeded; no operation
\* follows Build or a failed operation, none is refused for the builder's
\* state, and a run that ends well has called them all.
C5_BuilderStateMachine ==
    mode = "build" =>
        /\ \A i \in 1..Len(bbLog) :
            /\ AllOk(i - 1)
            /\ bbLog[i].err \notin {"NotIdle", "NotStarted"}
            /\ bbLog[i].op \in {"Start", "AddTx", "Build"}
            /\ i = 1 <=> bbLog[i].op = "Start"
            /\ bbLog[i].op = "AddTx" => (i - 1 <= Len(txArgs) /\ bbLog[i].arg = i - 1)
            /\ bbLog[i].op = "Build" => i = Len(txArgs) + 2
        /\ bb.state =
              (IF bbLog = <<>> \/ bbLog[1].err # "ok" THEN "Idle"
               ELSE IF LastOp.op = "Build" /\ LastOp.err = "ok" THEN "Built"
               ELSE "Started")
        /\ (pc = "done" /\ exit = "ok") =>
              (Len(bbLog) = Len(txArgs) + 2 /\ AllOk(Len(bbLog)))

\* A finished run that added two transactions and built the block.
C5_Witness ==
    /\ mode = "build" /\ pc = "done" /\ exit = "ok"
    /\ Len(txArgs) = 2 /\ Len(bbLog) = 4
    /\ bbLog[2].op = "AddTx" /\ bbLog[3].op = "AddTx" /\ bbLog[4].op = "Build"
    /\ bb.state = "Built"

\* C6: once Start, an AddTx or Build has failed, the run writes nothing:
\* stdout stays empty, no snapshot file is written, and the run ends in a
\* panic; a block that is written holds every transaction given.
C6_NoPartialBlock ==
    mode = "build" =>
        /\ SomeOpFailed =>
            /\ stdout = <<>> /\ snapFile = <<>> /\ built = <<>>
            /\ pc = "done" /\ exit = "panic"
        /\ stdout # <<>> =>
            /\ Len(stdout) = 1
            /\ Len(stdout[1].UnsignedBlock.transactions_root) = Len(txArgs)

\* A run asked for a snapshot file whose second transaction failed after
\* the first was added.
C6_Witness ==
    /\ mode = "build" /\ pc = "done" /\ exit = "panic" /\ snapOut
    /\ Len(bbLog) = 3 /\ bbLog[2].err = "ok"
    /\ bbLog[3].op = "AddTx" /\ bbLog[3].err = "DuplicateNonce"
    /\ stdout = <<>> /\ snapFile = <<>>

\* C7: Start fails with StaleTimestamp exactly when the run's timestamp is
\* not after the snapshot's, and otherwise starts a session one above the
\* snapshot's height at that timestamp; along the blocks built one after
\* another, each from the snapshot returned by the Build before it, heights
\* go up by exactly 1 and timestamps strictly increase.
C7_StartAndChain ==
    mode = "build" =>
        /\ Len(bbLog) >= 1 =>
            /\ bbLog[1].op = "Start"
            /\ bbLog[1].err = "StaleTimestamp" <=>
                  timestampMS <= stdinSnap.snap.timestamp_ms
            /\ bbLog[1].err = "ok" <=> timestampMS > stdinSnap.snap.timestamp_ms
            /\ bbLog[1].err = "ok" =>
                  /\ bb.height = stdinSnap.snap.height + 1
                  /\ bb.timestamp_ms = timestampMS
        /\ \A i \in 1..(Len(chain) - 1) :
            /\ chain[i + 1].height = chain[i].height + 1
            /\ chain[i + 1].timestamp_ms > chain[i].timestamp_ms

\* Two blocks built one after the other.
C7_Witness ==
    /\ mode = "build" /\ pc = "done" /\ exit = "ok"
    /\ Len(chain) = 2
    /\ chain[2].height = chain[1].height + 1
    /\ chain[2].timestamp_ms > chain[1].timestamp_ms

====
